---- MODULE Spec2Model ----
\* FloatImpls for f32 (src/src/float_impls.rs), modelled over a scaled-down
\* IEEE-754 binary format: 1 sign bit, ExpBits exponent bits, ManBits mantissa
\* bits.  A value is its bit pattern, a natural number.  f64 is the wider
\* format used by the promotion strategy of the MSVC targets.  The basic
\* operations (+ - * / sqrt fma, the conversions, the roundings to an
\* integer) are correctly rounded; exp, ln and pow are computed in fixed
\* point to within a unit in the last place, with the exact special cases
\* of the C library.
EXTENDS Integers, FiniteSets, Sequences, TLC

\* ---------------------------------------------------------------- formats

ExpBits == 3
ManBits == 2

\* The narrow format (f32) and the wide one (f64): the wide format holds
\* every narrow value exactly, as binary64 holds every binary32 value.
F32 == [eb |-> ExpBits, mb |-> ManBits]
F64 == [eb |-> ExpBits + 1, mb |-> 2 * ManBits + 2]

Bias(f) == 2^(f.eb - 1) - 1
ExpMask(f) == 2^f.eb - 1
Values(f) == 0 .. (2^(1 + f.eb + f.mb) - 1)

SignOf(f, b) == b \div 2^(f.eb + f.mb)
ExpOf(f, b) == (b \div 2^f.mb) % 2^f.eb
ManOf(f, b) == b % 2^f.mb
Pack(f, s, e, m) == s * 2^(f.eb + f.mb) + e * 2^f.mb + m

NanF(f) == Pack(f, 0, ExpMask(f), 2^(f.mb - 1))
InfF(f, s) == Pack(f, s, ExpMask(f), 0)
ZeroF(f, s) == Pack(f, s, 0, 0)

IsNanF(f, b) == ExpOf(f, b) = ExpMask(f) /\ ManOf(f, b) # 0
IsInfF(f, b) == ExpOf(f, b) = ExpMask(f) /\ ManOf(f, b) = 0
IsZeroF(f, b) == ExpOf(f, b) = 0 /\ ManOf(f, b) = 0

\* A finite value is (-1)^SignOf * Sig * 2^Qexp.
Sig(f, b) == IF ExpOf(f, b) = 0 THEN ManOf(f, b) ELSE 2^f.mb + ManOf(f, b)
Qexp(f, b) == (IF ExpOf(f, b) = 0 THEN 1 ELSE ExpOf(f, b)) - Bias(f) - f.mb

RECURSIVE BitLen(_)
BitLen(m) == IF m = 0 THEN 0 ELSE 1 + BitLen(m \div 2)

\* m * 2^e for e >= 0, m \div 2^(-e) for e < 0.
Shift(m, e) == IF e >= 0 THEN m * 2^e ELSE m \div 2^(-e)

\* Round-to-nearest, ties-to-even, of (-1)^s * m * 2^e into format f.
RoundF(f, s, m, e) ==
  IF m = 0 THEN ZeroF(f, s)
  ELSE
    LET top == e + BitLen(m) - 1
        emin == 1 - Bias(f)
        q == (IF top >= emin THEN top ELSE emin) - f.mb
        k0 == Shift(m, e - q)
        rem == IF e >= q THEN 0 ELSE m % 2^(q - e)
        half == IF e >= q THEN 1 ELSE 2^(q - e - 1)
        up == rem > half \/ (rem = half /\ k0 % 2 = 1)
        k1 == IF up THEN k0 + 1 ELSE k0
        k == IF k1 = 2^(f.mb + 1) THEN 2^f.mb ELSE k1
        qq == IF k1 = 2^(f.mb + 1) THEN q + 1 ELSE q
        ef == qq + f.mb + Bias(f)
    IN IF k < 2^f.mb THEN Pack(f, s, 0, k)
       ELSE IF ef >= ExpMask(f) THEN InfF(f, s)
       ELSE Pack(f, s, ef, k - 2^f.mb)

\* A value with an inexact tail below m: the sticky bit keeps it off a tie.
RoundSticky(f, s, m, e, inexact) ==
  RoundF(f, s, 2 * m + (IF inexact THEN 1 ELSE 0), e - 1)

\* ------------------------------------------------------- f32 arithmetic

NAN == NanF(F32)
INFINITY == InfF(F32, 0)
NEG_INFINITY == InfF(F32, 1)
PosZero == ZeroF(F32, 0)
NegZero == ZeroF(F32, 1)
One == Pack(F32, 0, Bias(F32), 0)
NegOne == Pack(F32, 1, Bias(F32), 0)

\* The order key of a non-NaN value: both zeros have key 0.
Key(b) == IF SignOf(F32, b) = 0 THEN b ELSE -(b - 2^(ExpBits + ManBits))

Lt(a, b) == ~IsNanF(F32, a) /\ ~IsNanF(F32, b) /\ Key(a) < Key(b)
Gt(a, b) == ~IsNanF(F32, a) /\ ~IsNanF(F32, b) /\ Key(a) > Key(b)
Eq(a, b) == ~IsNanF(F32, a) /\ ~IsNanF(F32, b) /\ Key(a) = Key(b)
Ne(a, b) == ~Eq(a, b)

Neg(b) == Pack(F32, 1 - SignOf(F32, b), ExpOf(F32, b), ManOf(F32, b))

\* The signed integer n with a = n * 2^e, for finite a and e <= Qexp(a).
Scaled(a, e) ==
  (IF SignOf(F32, a) = 1 THEN -1 ELSE 1) * Sig(F32, a) * 2^(Qexp(F32, a) - e)

Add(a, b) ==
  IF IsNanF(F32, a) \/ IsNanF(F32, b) THEN NAN
  ELSE IF IsInfF(F32, a) /\ IsInfF(F32, b)
    THEN (IF SignOf(F32, a) = SignOf(F32, b) THEN a ELSE NAN)
  ELSE IF IsInfF(F32, a) THEN a
  ELSE IF IsInfF(F32, b) THEN b
  ELSE
    LET e == IF Qexp(F32, a) < Qexp(F32, b) THEN Qexp(F32, a) ELSE Qexp(F32, b)
        n == Scaled(a, e) + Scaled(b, e)
    IN IF n = 0
         THEN (IF SignOf(F32, a) = 1 /\ SignOf(F32, b) = 1 THEN NegZero ELSE PosZero)
       ELSE IF n < 0 THEN RoundF(F32, 1, -n, e)
       ELSE RoundF(F32, 0, n, e)

Sub(a, b) == IF IsNanF(F32, b) THEN NAN ELSE Add(a, Neg(b))

Mul(a, b) ==
  LET s == (SignOf(F32, a) + SignOf(F32, b)) % 2
  IN IF IsNanF(F32, a) \/ IsNanF(F32, b) THEN NAN
     ELSE IF IsInfF(F32, a) \/ IsInfF(F32, b)
       THEN (IF IsZeroF(F32, a) \/ IsZeroF(F32, b) THEN NAN ELSE InfF(F32, s))
     ELSE RoundF(F32, s, Sig(F32, a) * Sig(F32, b), Qexp(F32, a) + Qexp(F32, b))

Div(a, b) ==
  LET s == (SignOf(F32, a) + SignOf(F32, b)) % 2
      k == 2 * ManBits + 4
      n == Sig(F32, a) * 2^k
      d == Sig(F32, b)
  IN IF IsNanF(F32, a) \/ IsNanF(F32, b) THEN NAN
     ELSE IF IsInfF(F32, a) THEN (IF IsInfF(F32, b) THEN NAN ELSE InfF(F32, s))
     ELSE IF IsInfF(F32, b) THEN ZeroF(F32, s)
     ELSE IF IsZeroF(F32, b) THEN (IF IsZeroF(F32, a) THEN NAN ELSE InfF(F32, s))
     ELSE IF IsZeroF(F32, a) THEN ZeroF(F32, s)
     ELSE RoundSticky(F32, s, n \div d, Qexp(F32, a) - Qexp(F32, b) - k, n % d # 0)

\* fmaf32: self * a + b with a single rounding.
fmaf32(a, b, c) ==
  LET s == (SignOf(F32, a) + SignOf(F32, b)) % 2
      ep == Qexp(F32, a) + Qexp(F32, b)
      e == IF ep < Qexp(F32, c) THEN ep ELSE Qexp(F32, c)
      p == (IF s = 1 THEN -1 ELSE 1) * Sig(F32, a) * Sig(F32, b) * 2^(ep - e)
      n == p + Scaled(c, e)
  IN IF IsNanF(F32, a) \/ IsNanF(F32, b) \/ IsNanF(F32, c) THEN NAN
     ELSE IF IsInfF(F32, a) \/ IsInfF(F32, b)
       THEN (IF IsZeroF(F32, a) \/ IsZeroF(F32, b) THEN NAN
             ELSE IF IsInfF(F32, c) /\ SignOf(F32, c) # s THEN NAN
             ELSE InfF(F32, s))
     ELSE IF IsInfF(F32, c) THEN c
     ELSE IF n = 0
       THEN (IF s = 1 /\ SignOf(F32, c) = 1 THEN NegZero ELSE PosZero)
     ELSE IF n < 0 THEN RoundF(F32, 1, -n, e)
     ELSE RoundF(F32, 0, n, e)

\* ------------------------------------------------ rounding to an integer

\* The integer part of |b| and whether a fraction is left, for finite b.
IntPart(f, b) ==
  IF Qexp(f, b) >= 0 THEN Sig(f, b) * 2^Qexp(f, b)
  ELSE IF -Qexp(f, b) > f.mb + 1 THEN 0
  ELSE Sig(f, b) \div 2^(-Qexp(f, b))

HasFrac(f, b) ==
  /\ Qexp(f, b) < 0
  /\ IF -Qexp(f, b) > f.mb + 1 THEN Sig(f, b) # 0
     ELSE Sig(f, b) % 2^(-Qexp(f, b)) # 0

HalfOrMore(f, b) ==
  /\ Qexp(f, b) < 0
  /\ -Qexp(f, b) <= f.mb + 1
  /\ Sig(f, b) % 2^(-Qexp(f, b)) >= 2^(-Qexp(f, b) - 1)

FloorF(f, b) ==
  IF IsNanF(f, b) \/ IsInfF(f, b) THEN b
  ELSE RoundF(f, SignOf(f, b),
              IntPart(f, b) + (IF SignOf(f, b) = 1 /\ HasFrac(f, b) THEN 1 ELSE 0), 0)

CeilF(f, b) ==
  IF IsNanF(f, b) \/ IsInfF(f, b) THEN b
  ELSE RoundF(f, SignOf(f, b),
              IntPart(f, b) + (IF SignOf(f, b) = 0 /\ HasFrac(f, b) THEN 1 ELSE 0), 0)

floorf32(a) == FloorF(F32, a)
ceilf32(a) == CeilF(F32, a)

truncf32(a) ==
  IF IsNanF(F32, a) \/ IsInfF(F32, a) THEN a
  ELSE RoundF(F32, SignOf(F32, a), IntPart(F32, a), 0)

roundf32(a) ==
  IF IsNanF(F32, a) \/ IsInfF(F32, a) THEN a
  ELSE RoundF(F32, SignOf(F32, a),
              IntPart(F32, a) + (IF HalfOrMore(F32, a) THEN 1 ELSE 0), 0)

\* A faulty variant: the widening flushes subnormal values to zero.
AsF64_flush(a) ==
  IF IsNanF(F32, a) THEN NanF(F64)
  ELSE IF IsInfF(F32, a) THEN InfF(F64, SignOf(F32, a))
  ELSE IF ExpOf(F32, a) = 0 THEN ZeroF(F64, SignOf(F32, a))
  ELSE RoundF(F64, SignOf(F32, a), Sig(F32, a), Qexp(F32, a))

\* `self as f64` and `... as f32`.
AsF64(a) ==
  IF IsNanF(F32, a) THEN NanF(F64)
  ELSE IF IsInfF(F32, a) THEN InfF(F64, SignOf(F32, a))
  ELSE RoundF(F64, SignOf(F32, a), Sig(F32, a), Qexp(F32, a))

AsF32(w) ==
  IF IsNanF(F64, w) THEN NAN
  ELSE IF IsInfF(F64, w) THEN InfF(F32, SignOf(F64, w))
  ELSE RoundF(F32, SignOf(F64, w), Sig(F64, w), Qexp(F64, w))

\* ---------------------------------------------------------- sqrt and ln

RECURSIVE ISqrt(_)
ISqrt(n) ==
  IF n < 2 THEN n
  ELSE LET s == 2 * ISqrt(n \div 4)
       IN IF (s + 1) * (s + 1) <= n THEN s + 1 ELSE s

\* The correctly rounded square root; NaN below zero, as the hardware gives.
sqrtf32(a) ==
  IF IsNanF(F32, a) THEN NAN
  ELSE IF IsZeroF(F32, a) THEN a
  ELSE IF SignOf(F32, a) = 1 THEN NAN
  ELSE IF IsInfF(F32, a) THEN a
  ELSE
    LET sh == 2 * (ManBits + 3) + (Qexp(F32, a) % 2)
        m == Sig(F32, a) * 2^sh
        r == ISqrt(m)
    IN RoundSticky(F32, 0, r, (Qexp(F32, a) - sh) \div 2, r * r # m)

\* Fixed-point log2 of y in [1, 2): y and the result carry fb fraction bits.
RECURSIVE Log2Frac(_, _, _)
Log2Frac(y, fb, i) ==
  IF i = 0 THEN 0
  ELSE LET y2 == (y * y) \div 2^fb
       IN IF y2 >= 2^(fb + 1)
            THEN 2^(i - 1) + Log2Frac(y2 \div 2, fb, i - 1)
            ELSE Log2Frac(y2, fb, i - 1)

FracBits == ManBits + 10

\* log2 of |b| in units of 2^-FracBits, for finite b # 0.
Log2Fix(f, b) ==
  LET nb == BitLen(Sig(f, b))
  IN (Qexp(f, b) + nb - 1) * 2^FracBits
       + Log2Frac(Shift(Sig(f, b), FracBits - (nb - 1)), FracBits, FracBits)

\* A logarithm in format f: log2 in fixed point, times c/4096, then rounded.
LogF(f, b, c) ==
  IF IsNanF(f, b) THEN NanF(f)
  ELSE IF IsZeroF(f, b) THEN InfF(f, 1)
  ELSE IF SignOf(f, b) = 1 THEN NanF(f)
  ELSE IF IsInfF(f, b) THEN b
  ELSE IF Log2Fix(f, b) < 0 THEN RoundF(f, 1, (-Log2Fix(f, b)) * c, -FracBits - 12)
  ELSE RoundF(f, 0, Log2Fix(f, b) * c, -FracBits - 12)

\* ln 2 = 2839/4096, log10 2 = 1233/4096.
LnF(f, b) == LogF(f, b, 2839)
Log2F(f, b) == LogF(f, b, 4096)
Log10F(f, b) == LogF(f, b, 1233)

logf32(a) == LnF(F32, a)
log2f32(a) == Log2F(F32, a)
log10f32(a) == Log10F(F32, a)

\* 2^(fr / 2^fb) with fb fraction bits: the product of the roots
\* c = 2^(1/2), 2^(1/4), ... picked by the low i bits of fr, high bit first.
RECURSIVE Exp2Frac(_, _, _, _)
Exp2Frac(fr, fb, c, i) ==
  IF i = 0 THEN 2^fb
  ELSE IF (fr \div 2^(i - 1)) % 2 = 1
    THEN (Exp2Frac(fr, fb, ISqrt(c * 2^fb), i - 1) * c) \div 2^fb
  ELSE Exp2Frac(fr, fb, ISqrt(c * 2^fb), i - 1)

\* (-1)^s * 2^(p / 2^FracBits) rounded into format f.
Exp2Fix(f, s, p) ==
  IF p \div 2^FracBits > Bias(f) THEN InfF(f, s)
  ELSE IF p \div 2^FracBits < -Bias(f) - f.mb THEN ZeroF(f, s)
  ELSE RoundF(f, s,
              Exp2Frac(p % 2^FracBits, FracBits, ISqrt(2^(2 * FracBits + 1)), FracBits),
              p \div 2^FracBits - FracBits)

\* b in units of 2^-FracBits, for finite b below 2^f.eb in magnitude.
ToFix(f, b) ==
  (IF SignOf(f, b) = 1 THEN -1 ELSE 1) * Shift(Sig(f, b), Qexp(f, b) + FracBits)

\* 2^b, and e^b as 2^(b * log2 e) with log2 e = 5909/4096.
Exp2F(f, b) ==
  IF IsNanF(f, b) THEN NanF(f)
  ELSE IF IsInfF(f, b) \/ IntPart(f, b) >= 2^f.eb
    THEN (IF SignOf(f, b) = 1 THEN ZeroF(f, 0) ELSE InfF(f, 0))
  ELSE Exp2Fix(f, 0, ToFix(f, b))

ExpF(f, b) ==
  IF IsNanF(f, b) THEN NanF(f)
  ELSE IF IsInfF(f, b) \/ IntPart(f, b) >= 2^f.eb
    THEN (IF SignOf(f, b) = 1 THEN ZeroF(f, 0) ELSE InfF(f, 0))
  ELSE Exp2Fix(f, 0, (ToFix(f, b) * 5909) \div 4096)

expf32(a) == ExpF(F32, a)
exp2f32(a) == Exp2F(F32, a)

IsOddInt(f, b) ==
  ~IsNanF(f, b) /\ ~IsInfF(f, b) /\ ~HasFrac(f, b) /\ IntPart(f, b) % 2 = 1

\* |a| < 1 and |a| > 1, for a that is not NaN.
Below1(f, a) == ~IsInfF(f, a) /\ IntPart(f, a) = 0
Above1(f, a) == IsInfF(f, a) \/ IntPart(f, a) > 1 \/ (IntPart(f, a) = 1 /\ HasFrac(f, a))

\* pow(a, b) with the special cases of the C library; in general
\* 2^(b * log2 |a|), negative for a negative base and an odd exponent.
PowF(f, a, b) ==
  LET one == Pack(f, 0, Bias(f), 0)
      odd == IsOddInt(f, b)
      s == IF SignOf(f, a) = 1 /\ odd THEN 1 ELSE 0
  IN IF ~IsNanF(f, b) /\ IsZeroF(f, b) THEN one
     ELSE IF a = one THEN one
     ELSE IF IsNanF(f, a) \/ IsNanF(f, b) THEN NanF(f)
     ELSE IF IsInfF(f, b)
       THEN (IF ~Below1(f, a) /\ ~Above1(f, a) THEN one
             ELSE IF Below1(f, a) = (SignOf(f, b) = 1) THEN InfF(f, 0)
             ELSE ZeroF(f, 0))
     ELSE IF IsZeroF(f, a)
       THEN (IF SignOf(f, b) = 1 THEN InfF(f, s) ELSE ZeroF(f, s))
     ELSE IF IsInfF(f, a)
       THEN (IF SignOf(f, b) = 1 THEN ZeroF(f, s) ELSE InfF(f, s))
     ELSE IF SignOf(f, a) = 1 /\ HasFrac(f, b) THEN NanF(f)
     ELSE Exp2Fix(f, s,
            Shift((IF SignOf(f, b) = 1 THEN -1 ELSE 1) * Log2Fix(f, a) * Sig(f, b),
                  Qexp(f, b)))

powf32(a, b) == PowF(F32, a, b)

\* consts::PI = 3217/1024 and f64::consts::LOG2_E as f32, rounded to f32.
PI == RoundF(F32, 0, 3217, -10)
LOG2_E == RoundF(F32, 0, 5909, -12)

\* powif32: square-and-multiply over |n|, reciprocal for n < 0.
RECURSIVE PowiLoop(_, _, _)
PowiLoop(a, b, r) ==
  LET r1 == IF b % 2 = 1 THEN Mul(r, a) ELSE r
  IN IF b \div 2 = 0 THEN r1 ELSE PowiLoop(Mul(a, a), b \div 2, r1)

powif32(a, k) ==
  IF k < 0 THEN Div(One, PowiLoop(a, -k, One)) ELSE PowiLoop(a, k, One)

copysignf32(a, b) == Pack(F32, SignOf(F32, b), ExpOf(F32, a), ManOf(F32, a))

\* ------------------------------------------- impl FloatImpls for f32

\* target_env, target_os: the build target, fixed once per build.
\* op: the method whose call has just returned ("none" between calls);
\* x, y, z, n: its arguments (self first); res: its f32 result; flag: its
\* bool result.
VARIABLES target_env, target_os, op, x, y, z, n, res, flag
vars == <<target_env, target_os, op, x, y, z, n, res, flag>>

is_nan(self) == Ne(self, self)
\* A faulty variant: the exponent field alone decides, the mantissa is not looked at.
is_infinite_exponent_only(self) == ExpOf(F32, self) = ExpMask(F32)

is_infinite(self) == Eq(self, INFINITY) \/ Eq(self, NEG_INFINITY)
is_finite(self) == ~(is_nan(self) \/ is_infinite(self))

\* classify(): the masks of the exponent and mantissa fields.
is_normal(self) == ExpOf(F32, self) # 0 /\ ExpOf(F32, self) # ExpMask(F32)

floor(self) ==
  IF target_env = "msvc" THEN AsF32(FloorF(F64, AsF64(self))) ELSE floorf32(self)

ceil(self) ==
  IF target_env = "msvc" THEN AsF32(CeilF(F64, AsF64(self))) ELSE ceilf32(self)

round(self) == roundf32(self)
trunc(self) == truncf32(self)
\* A faulty variant: the integer part taken by floor instead of trunc.
fract_by_floor(self) == Sub(self, floor(self))

fract(self) == Sub(self, trunc(self))

is_sign_positive(self) == Gt(self, PosZero) \/ Eq(Div(One, self), INFINITY)
\* A faulty variant: the comparison alone, without the reciprocal test that tells -0.0.
is_sign_negative_no_zero(self) == Lt(self, PosZero)

is_sign_negative(self) == Lt(self, PosZero) \/ Eq(Div(One, self), NEG_INFINITY)

\* A faulty variant: the sign copied without the NaN test.
signum_no_nan_test(self) == copysignf32(One, self)

signum(self) == IF is_nan(self) THEN NAN ELSE copysignf32(One, self)

mul_add(self, a, b) == fmaf32(self, a, b)
powi(self, k) == powif32(self, k)

powf(self, e) ==
  IF target_env = "msvc" THEN AsF32(PowF(F64, AsF64(self), AsF64(e)))
  ELSE powf32(self, e)

\* A faulty variant: the negative check written with <= instead of <.
sqrt_le(self) ==
  IF Lt(self, PosZero) \/ Eq(self, PosZero) THEN NAN ELSE sqrtf32(self)

sqrt(self) == IF Lt(self, PosZero) THEN NAN ELSE sqrtf32(self)

ln(self) ==
  IF target_env = "msvc" THEN AsF32(LnF(F64, AsF64(self))) ELSE logf32(self)

log(self, base) == Div(ln(self), ln(base))

exp(self) ==
  IF target_env = "msvc" THEN AsF32(ExpF(F64, AsF64(self))) ELSE expf32(self)

exp2(self) == exp2f32(self)

\* ::sys::android::log2f32
android_log2f32(self) == Mul(ln(self), LOG2_E)

log2(self) ==
  IF target_os = "android" THEN android_log2f32(self) ELSE log2f32(self)

log10(self) ==
  IF target_env = "msvc" THEN AsF32(Log10F(F64, AsF64(self))) ELSE log10f32(self)

to_degrees(self) == Mul(self, Div(RoundF(F32, 0, 180, 0), PI))

\* A faulty variant: the comparison written with >= instead of >.
max_ge(self, other) ==
  IF Gt(self, other) \/ Eq(self, other) THEN self ELSE other

max(self, other) == IF Gt(self, other) THEN self ELSE other
min(self, other) == IF Lt(self, other) THEN self ELSE other

\* The argument of sqrt and the argument of ln in asinh's general formula.
AsinhRadicand(self) == Add(Mul(self, self), One)
AsinhLnArg(self) == Add(self, sqrt(AsinhRadicand(self)))

\* A faulty variant: the negative-infinity case left to the general formula.
asinh_no_special_case(self) == ln(AsinhLnArg(self))

asinh(self) ==
  IF Eq(self, NEG_INFINITY) THEN NEG_INFINITY ELSE ln(AsinhLnArg(self))

AcoshLnArg(self) == Add(self, sqrt(Sub(Mul(self, self), One)))

\* A faulty variant: the domain check written with <= instead of <.
acosh_le(self) ==
  IF Lt(self, One) \/ Eq(self, One) THEN NAN ELSE ln(AcoshLnArg(self))

acosh(self) == IF Lt(self, One) THEN NAN ELSE ln(AcoshLnArg(self))

\* ------------------------------------------------------- the callers

MaxPow == 3

\* Operands of mul_add, powf and log besides self: the zeros, +-1.0, the
\* infinities, two NaNs, the least subnormal, the greatest finite value,
\* 2.0, 0.5, 5.0 and -0.75.  max and min take every pair of values.
Samples ==
  { PosZero, NegZero, One, NegOne, INFINITY, NEG_INFINITY, NAN,
    Pack(F32, 1, ExpMask(F32), 1), Pack(F32, 0, 0, 1),
    Pack(F32, 0, ExpMask(F32) - 1, 2^ManBits - 1),
    Pack(F32, 0, Bias(F32) + 1, 0), Pack(F32, 0, Bias(F32) - 1, 0),
    Pack(F32, 0, Bias(F32) + 2, 2^(ManBits - 2)),
    Pack(F32, 1, Bias(F32) - 1, 2^(ManBits - 1)) }

Returns(name, a, b, c, k, r) ==
  /\ op' = name /\ x' = a /\ y' = b /\ z' = c /\ n' = k
  /\ res' = r /\ flag' = FALSE
  /\ UNCHANGED <<target_env, target_os>>

Answers(name, a, v) ==
  /\ op' = name /\ x' = a /\ y' = PosZero /\ z' = PosZero /\ n' = 0
  /\ res' = PosZero /\ flag' = v
  /\ UNCHANGED <<target_env, target_os>>

\* The targets told apart by the cfg attributes: <<target_env, target_os>>.
Targets == {<<"msvc", "windows">>, <<"gnu", "linux">>, <<"", "android">>}

Init ==
  /\ \E t \in Targets : target_env = t[1] /\ target_os = t[2]
  /\ op = "none" /\ x = PosZero /\ y = PosZero /\ z = PosZero /\ n = 0
  /\ res = PosZero /\ flag = FALSE

CallIsNan ==
  /\ op = "none"
  /\ \E a \in Values(F32) : Answers("is_nan", a, is_nan(a))
CallIsInfinite ==
  /\ op = "none"
  /\ \E a \in Values(F32) : Answers("is_infinite", a, is_infinite(a))
CallIsFinite ==
  /\ op = "none"
  /\ \E a \in Values(F32) : Answers("is_finite", a, is_finite(a))
CallIsNormal ==
  /\ op = "none"
  /\ \E a \in Values(F32) : Answers("is_normal", a, is_normal(a))
CallIsSignPositive ==
  /\ op = "none"
  /\ \E a \in Values(F32) : Answers("is_sign_positive", a, is_sign_positive(a))
CallIsSignNegative ==
  /\ op = "none"
  /\ \E a \in Values(F32) : Answers("is_sign_negative", a, is_sign_negative(a))

CallFloor ==
  /\ op = "none"
  /\ \E a \in Values(F32) : Returns("floor", a, PosZero, PosZero, 0, floor(a))
CallCeil ==
  /\ op = "none"
  /\ \E a \in Values(F32) : Returns("ceil", a, PosZero, PosZero, 0, ceil(a))
CallRound ==
  /\ op = "none"
  /\ \E a \in Values(F32) : Returns("round", a, PosZero, PosZero, 0, round(a))
CallTrunc ==
  /\ op = "none"
  /\ \E a \in Values(F32) : Returns("trunc", a, PosZero, PosZero, 0, trunc(a))
CallFract ==
  /\ op = "none"
  /\ \E a \in Values(F32) : Returns("fract", a, PosZero, PosZero, 0, fract(a))
CallSignum ==
  /\ op = "none"
  /\ \E a \in Values(F32) : Returns("signum", a, PosZero, PosZero, 0, signum(a))
CallSqrt ==
  /\ op = "none"
  /\ \E a \in Values(F32) : Returns("sqrt", a, PosZero, PosZero, 0, sqrt(a))
CallLn ==
  /\ op = "none"
  /\ \E a \in Values(F32) : Returns("ln", a, PosZero, PosZero, 0, ln(a))
CallAsinh ==
  /\ op = "none"
  /\ \E a \in Values(F32) : Returns("asinh", a, PosZero, PosZero, 0, asinh(a))
CallAcosh ==
  /\ op = "none"
  /\ \E a \in Values(F32) : Returns("acosh", a, PosZero, PosZero, 0, acosh(a))

CallExp ==
  /\ op = "none"
  /\ \E a \in Values(F32) : Returns("exp", a, PosZero, PosZero, 0, exp(a))
CallExp2 ==
  /\ op = "none"
  /\ \E a \in Values(F32) : Returns("exp2", a, PosZero, PosZero, 0, exp2(a))
CallLog2 ==
  /\ op = "none"
  /\ \E a \in Values(F32) : Returns("log2", a, PosZero, PosZero, 0, log2(a))
CallLog10 ==
  /\ op = "none"
  /\ \E a \in Values(F32) : Returns("log10", a, PosZero, PosZero, 0, log10(a))
CallToDegrees ==
  /\ op = "none"
  /\ \E a \in Values(F32) :
     Returns("to_degrees", a, PosZero, PosZero, 0, to_degrees(a))
CallPowf ==
  /\ op = "none"
  /\ \E a \in Values(F32), b \in Samples :
     Returns("powf", a, b, PosZero, 0, powf(a, b))

CallMulAdd ==
  /\ op = "none"
  /\ \E a \in Values(F32), b \in Samples, c \in Samples :
     Returns("mul_add", a, b, c, 0, mul_add(a, b, c))
CallPowi ==
  /\ op = "none"
  /\ \E a \in Values(F32), k \in -MaxPow .. MaxPow :
     Returns("powi", a, PosZero, PosZero, k, powi(a, k))
CallLog ==
  /\ op = "none"
  /\ \E a \in Values(F32), b \in Samples :
     Returns("log", a, b, PosZero, 0, log(a, b))
CallMax ==
  /\ op = "none"
  /\ \E a \in Values(F32), b \in Values(F32) :
     Returns("max", a, b, PosZero, 0, max(a, b))
CallMin ==
  /\ op = "none"
  /\ \E a \in Values(F32), b \in Values(F32) :
     Returns("min", a, b, PosZero, 0, min(a, b))

\* The caller drops the result and is free to make the next call.
Done ==
  /\ op # "none"
  /\ op' = "none" /\ x' = PosZero /\ y' = PosZero /\ z' = PosZero /\ n' = 0
  /\ res' = PosZero /\ flag' = FALSE
  /\ UNCHANGED <<target_env, target_os>>

Next ==
  \/ CallIsNan \/ CallIsInfinite \/ CallIsFinite \/ CallIsNormal
  \/ CallIsSignPositive \/ CallIsSignNegative
  \/ CallFloor \/ CallCeil \/ CallRound \/ CallTrunc \/ CallFract
  \/ CallSignum \/ CallSqrt \/ CallLn \/ CallAsinh \/ CallAcosh
  \/ CallExp \/ CallExp2 \/ CallLog2 \/ CallLog10 \/ CallToDegrees \/ CallPowf
  \/ CallMulAdd \/ CallPowi \/ CallLog \/ CallMax \/ CallMin
  \/ Done

Spec == Init /\ [][Next]_vars

\* ------------------------------------------------------------ properties

IsNan(b) == IsNanF(F32, b)
IsFiniteBits(b) == ExpOf(F32, b) # ExpMask(F32)
IsSubnormal(b) == ExpOf(F32, b) = 0 /\ ManOf(F32, b) # 0

\* C1: max and min avoid NaN in both argument positions: with exactly one
\* NaN operand the result is the other operand, with two the result is NaN.
C1_MaxMinAvoidNan ==
  op \in {"max", "min"} =>
    /\ (IsNan(x) /\ ~IsNan(y) => res = y)
    /\ (~IsNan(x) /\ IsNan(y) => res = x)
    /\ (IsNan(x) /\ IsNan(y) => IsNan(res))

\* C2 as claimed: for every value, NaN included, exactly one of
\* is_sign_positive and is_sign_negative is true, each reporting the sign bit.
C2_ExactlyOneSignForAll ==
  /\ op = "is_sign_positive" =>
       flag = (SignOf(F32, x) = 0) /\ flag # is_sign_negative(x)
  /\ op = "is_sign_negative" =>
       flag = (SignOf(F32, x) = 1) /\ flag # is_sign_positive(x)

\* C2 as amended: for every value that is not NaN exactly one of the two
\* predicates is true and it reports the sign bit (-0.0 is negative, +0.0
\* positive); for every NaN both predicates are false.
C2_ExactlyOneSignUnlessNan ==
  /\ op = "is_sign_positive" =>
       IF IsNan(x) THEN ~flag /\ ~is_sign_negative(x)
       ELSE flag = (SignOf(F32, x) = 0) /\ flag # is_sign_negative(x)
  /\ op = "is_sign_negative" =>
       IF IsNan(x) THEN ~flag /\ ~is_sign_positive(x)
       ELSE flag = (SignOf(F32, x) = 1) /\ flag # is_sign_positive(x)

C2_Witness == op = "is_sign_negative" /\ x = NegZero /\ flag

\* C3: for every bit pattern exactly one of is_nan, is_infinite, is_finite
\* is true, and is_normal implies is_finite.
C3_ExactlyOneClass ==
  op \in {"is_nan", "is_infinite", "is_finite", "is_normal"} =>
    LET nan == IF op = "is_nan" THEN flag ELSE is_nan(x)
        inf == IF op = "is_infinite" THEN flag ELSE is_infinite(x)
        fin == IF op = "is_finite" THEN flag ELSE is_finite(x)
        nor == IF op = "is_normal" THEN flag ELSE is_normal(x)
    IN /\ Cardinality({c \in {<<1, nan>>, <<2, inf>>, <<3, fin>>} : c[2]}) = 1
       /\ nor => fin

C3_Witness == op = "is_infinite" /\ IsNan(x) /\ SignOf(F32, x) = 1 /\ ~flag

\* C4 as claimed: sqrt(x) is NaN for x < 0.0, sqrt(-0.0) is -0.0, and for
\* every other input the result is finite and non-negative.
C4_SqrtOtherwiseFinite ==
  op = "sqrt" =>
    IF Lt(x, PosZero) THEN IsNan(res)
    ELSE IF x = NegZero THEN res = NegZero
    ELSE IsFiniteBits(res) /\ SignOf(F32, res) = 0

\* C4 as amended: sqrt(x) is NaN for x < 0.0, sqrt(-0.0) is -0.0, for every
\* other finite input the result is finite and non-negative, sqrt(INFINITY)
\* is INFINITY and sqrt(NaN) is NaN.
C4_SqrtByClass ==
  op = "sqrt" =>
    IF Lt(x, PosZero) THEN IsNan(res)
    ELSE IF x = NegZero THEN res = NegZero
    ELSE IF IsNan(x) THEN IsNan(res)
    ELSE IF x = INFINITY THEN res = INFINITY
    ELSE IsFiniteBits(res) /\ SignOf(F32, res) = 0

C4_Witness == op = "sqrt" /\ x = NegZero /\ res = NegZero

\* C5 as claimed: for every finite x, fract(x) + trunc(x) has exactly the
\* bit pattern of x.
C5_FractPlusTruncAllFinite ==
  op = "fract" /\ IsFiniteBits(x) => Add(res, trunc(x)) = x

\* C5 as amended: for every finite x other than -0.0, fract(x) + trunc(x)
\* has exactly the bit pattern of x; for x = -0.0 the sum is +0.0.
C5_FractPlusTruncButNegZero ==
  op = "fract" /\ IsFiniteBits(x) =>
    Add(res, trunc(x)) = (IF x = NegZero THEN PosZero ELSE x)

C5_Witness ==
  op = "fract" /\ IsFiniteBits(x) /\ Lt(res, PosZero) /\ Lt(trunc(x), PosZero)

\* C6: acosh(x) is NaN for every x < 1.0 (negative values, both zeros,
\* negative infinity), is ln(x + sqrt(x*x - 1)) for every x >= 1.0, and is
\* 0.0 at x = 1.0.
C6_AcoshDomain ==
  op = "acosh" =>
    /\ Lt(x, One) => IsNan(res)
    /\ x \in {PosZero, NegZero, NEG_INFINITY, NegOne} => IsNan(res)
    /\ Gt(x, One) \/ Eq(x, One) =>
         res = ln(Add(x, sqrt(Sub(Mul(x, x), One))))
    /\ x = One => res = PosZero

C6_Witness == op = "acosh" /\ x = One /\ res = PosZero

\* C7: asinh(NEG_INFINITY) is NEG_INFINITY, and asinh(INFINITY) is INFINITY
\* by the general formula, no step of which yields NaN.
C7_AsinhInfinities ==
  op = "asinh" =>
    /\ x = NEG_INFINITY => res = NEG_INFINITY
    /\ x = INFINITY =>
         /\ res = INFINITY
         /\ res = ln(Add(x, sqrt(Add(Mul(x, x), One))))
         /\ ~IsNan(Mul(x, x))
         /\ ~IsNan(Add(Mul(x, x), One))
         /\ ~IsNan(sqrt(Add(Mul(x, x), One)))
         /\ ~IsNan(Add(x, sqrt(Add(Mul(x, x), One))))

C7_Witness == op = "asinh" /\ x = INFINITY /\ res = INFINITY

\* C8: for every finite x, floor and ceil by promotion (widen, round in
\* double precision, narrow) return the bit pattern of the direct
\* single-precision primitive, whichever strategy the build selected.
C8_PromotionIsExact ==
  /\ op = "floor" /\ IsFiniteBits(x) =>
       res = floorf32(x) /\ res = AsF32(FloorF(F64, AsF64(x)))
  /\ op = "ceil" /\ IsFiniteBits(x) =>
       res = ceilf32(x) /\ res = AsF32(CeilF(F64, AsF64(x)))

C8_Witness ==
  target_env = "msvc" /\ op = "floor" /\ IsSubnormal(x) /\ res = NegOne

\* The methods that return an f32, and whether a NaN was among the arguments.
FloatMethods ==
  { "floor", "ceil", "round", "trunc", "fract", "signum", "mul_add", "powi",
    "powf", "sqrt", "exp", "exp2", "ln", "log", "log2", "log10", "to_degrees",
    "max", "min", "asinh", "acosh" }

NanArgument ==
  \/ IsNan(x)
  \/ op \in {"log", "mul_add", "powf", "max", "min"} /\ IsNan(y)
  \/ op = "mul_add" /\ IsNan(z)

\* C9 as claimed: every operation other than max and min returns NaN when
\* given a NaN input.
C9_NanInNanOut ==
  op \in FloatMethods \ {"max", "min"} /\ NanArgument => IsNan(res)

\* C9 as amended: every operation other than max, min, powi and powf returns
\* NaN when given a NaN input (sqrt, acosh, asinh, fract, log in either
\* argument among them); powi(NaN, n) is 1.0 for n = 0 and NaN otherwise;
\* powf(NaN, e) is 1.0 for e = +-0.0, powf(1.0, NaN) is 1.0, and powf with a
\* NaN argument is NaN otherwise.
C9_NanInNanOutButPow ==
  /\ op \in FloatMethods \ {"max", "min", "powi", "powf"} /\ NanArgument
       => IsNan(res)
  /\ op = "powi" /\ IsNan(x) => IF n = 0 THEN res = One ELSE IsNan(res)
  /\ op = "powf" /\ NanArgument =>
       IF y \in {PosZero, NegZero} \/ x = One THEN res = One ELSE IsNan(res)

C9_Witness == op = "acosh" /\ IsNan(x) /\ ~Lt(x, One) /\ IsNan(res)

====
